---- MODULE Spec2Model ----
(***************************************************************************)
(* A model of automl/resources.py: the Resources singleton, its path       *)
(* normalizer, the framework registry, the benchmark definition resolver   *)
(* and the two validators.                                                 *)
(*                                                                         *)
(* Python values are modelled as follows.                                  *)
(*   - None is the string "None"; scalar field values are strings.         *)
(*   - A Namespace is a function from its keys to values; a key that is    *)
(*     not in the domain is absent.                                        *)
(*   - A text (a path, a benchmark name, a framework name) is a sequence   *)
(*     of tokens, each token one or more characters that are never split.  *)
(***************************************************************************)
EXTENDS Integers, Sequences, FiniteSets, TLC

VARIABLES
    self_config,  \* self.config as the validators and the resolvers read it
    task,         \* the task entry handed to _validate_task
    taskRet,      \* the outcome of _validate_task, with the entry as it was given
    framework,    \* the framework entry handed to _validate_framework
    fwGiven,      \* <<>>, or <<the entry as it was given>> once it is validated
    fwFiles,      \* the content of the framework definition file(s), in load order
    frameworks,   \* the lazy property _frameworks: <<>> (not computed) or <<registry>>
    fwRet,        \* the outcome of the last framework_definition call
    files,        \* the files on disk: path -> <<>> (no file) or <<content>>
    memo,         \* the cache of @memoize: benchmark name -> result
    first,        \* history: benchmark name -> the first result returned for it
    benchRet,     \* the outcome of the last benchmark_definition call, and whether
                  \* the name it asked for had resolved before
    normTree,     \* the configuration handed to _normalize
    normReplace,  \* its replace argument: <<>> (None) or <<placeholder mapping>>
    normHist,     \* the outcomes of the successive _normalize calls
    __INSTANCE__,   \* __INSTANCE__: 0 (None) or the index in objs of a Resources
    objs,         \* the Resources objects constructed so far: their self.config
    sys_path,     \* sys.path
    dirs,         \* the directories made on disk by makedirs
    ret,          \* the outcome of the last module-level call
    calls         \* the number of from_config / from_configs calls made

taskVars == <<task, taskRet>>
fwVars == <<framework, fwGiven>>
regVars == <<fwFiles, frameworks, fwRet>>
benchVars == <<files, memo, first, benchRet>>
normVars == <<normTree, normReplace, normHist>>
procVars == <<__INSTANCE__, objs, sys_path, dirs, ret, calls>>
vars == <<self_config, taskVars, fwVars, regVars, benchVars, normVars, procVars>>

None == "None"

(***************************************************************************)
(* Namespace (automl/utils.py, not part of the sources at hand).           *)
(***************************************************************************)
\* ns[key]: the value, or None when the key is absent
NsGet(ns, key) == IF key \in DOMAIN ns THEN ns[key] ELSE None

\* ns[key] = value
NsSet(ns, key, value) ==
    [k \in (DOMAIN ns) \cup {key} |-> IF k = key THEN value ELSE ns[k]]

\* the Namespace with no key
EmptyNs == [k \in {} |-> None]

\* The values of a configuration are tagged with their Python type:
\* a text, a list of texts, a nested Namespace, any other scalar.
Str(text) == [kind |-> "str", val |-> text]
List(texts) == [kind |-> "list", val |-> texts]
Ns(ns) == [kind |-> "ns", val |-> ns]
Other(scalar) == [kind |-> "other", val |-> scalar]

(***************************************************************************)
(* _validate_task                                                          *)
(***************************************************************************)
RequiredConfs == <<"name", "openml_task_id", "metric">>
DefaultedConfs == <<"max_runtime_seconds", "cores", "folds", "max_mem_size_mb">>
Ec2Conf == "ec2_instance_type"

\* lines 128-131, a mutation: stop at the first missing property
RECURSIVE MissingFirstOnly(_, _)
MissingFirstOnly(t, confs) ==
    IF confs = <<>> THEN <<>>
    ELSE IF NsGet(t, Head(confs)) = None THEN <<Head(confs)>>
    ELSE MissingFirstOnly(t, Tail(confs))

\* lines 128-131: the mandatory properties of `confs` that task t lacks, in order
RECURSIVE Missing(_, _)
Missing(t, confs) ==
    IF confs = <<>> THEN <<>>
    ELSE (IF NsGet(t, Head(confs)) = None THEN <<Head(confs)>> ELSE <<>>)
         \o Missing(t, Tail(confs))

\* a mutation of lines 136-137: a falsy declared value ("0", "") is replaced too
RECURSIVE FillDefaultsFalsy(_, _, _)
FillDefaultsFalsy(t, confs, defaults) ==
    IF confs = <<>> THEN t
    ELSE FillDefaultsFalsy(
            IF NsGet(t, Head(confs)) \in {None, "0", ""}
            THEN NsSet(t, Head(confs), NsGet(defaults, Head(confs)))
            ELSE t,
            Tail(confs), defaults)

\* lines 135-137: every conf of `confs` that t lacks is taken from `defaults`
RECURSIVE FillDefaults(_, _, _)
FillDefaults(t, confs, defaults) ==
    IF confs = <<>> THEN t
    ELSE FillDefaults(
            IF NsGet(t, Head(confs)) = None
            THEN NsSet(t, Head(confs), NsGet(defaults, Head(confs)))
            ELSE t,
            Tail(confs), defaults)

\* lines 140-142
FillEc2(t, cfg) ==
    IF NsGet(t, Ec2Conf) = None
    THEN NsSet(t, Ec2Conf, cfg.aws.ec2.instance_type)
    ELSE t

\* lines 127-143: the outcome of _validate_task(t) under configuration cfg:
\* ValueError naming the missing properties (t untouched), or t with its defaults
ValidateTask(t, cfg) ==
    LET missing == Missing(t, RequiredConfs) IN
    IF Len(missing) > 0
    THEN [raised |-> "ValueError", missing |-> missing, task |-> t]
    ELSE [raised |-> None, missing |-> <<>>,
          task |-> FillEc2(FillDefaults(t, DefaultedConfs, cfg.benchmarks.defaults), cfg)]

(***************************************************************************)
(* Texts and ordered mappings                                              *)
(***************************************************************************)
\* str.lower() on one token
LowerChar(c) == IF c = "A" THEN "a" ELSE IF c = "B" THEN "b" ELSE c

\* str.lower(): every token lowercased
Lower(text) == [i \in DOMAIN text |-> LowerChar(text[i])]

\* A dict keeps insertion order: a sequence of [k, v] with distinct keys.
OdKeys(od) == {od[i].k : i \in DOMAIN od}

\* od[key]: <<value>>, or <<>> (None) when the key is absent
OdGet(od, key) ==
    IF key \in OdKeys(od)
    THEN <<od[CHOOSE i \in DOMAIN od : od[i].k = key].v>>
    ELSE <<>>

\* od[key] = value: an existing key keeps its position, a new one goes last
OdSet(od, key, value) ==
    IF key \in OdKeys(od)
    THEN [i \in DOMAIN od |-> IF od[i].k = key THEN [k |-> key, v |-> value] ELSE od[i]]
    ELSE Append(od, [k |-> key, v |-> value])

\* Namespace.__add__ (dict.update): every item of `other` set on od, in order
RECURSIVE OdUpdate(_, _)
OdUpdate(od, other) ==
    IF other = <<>> THEN od
    ELSE OdUpdate(OdSet(od, Head(other).k, Head(other).v), Tail(other))

(***************************************************************************)
(* _validate_framework                                                     *)
(* A framework entry is [name, module, setup_args, setup_cmd, docker_image]*)
(* where name is a text, module and docker_image are <<>> (None) or        *)
(* <<value>>, and docker_image's value is a Namespace of strings.          *)
(***************************************************************************)
DockerConfs == <<"author", "image", "tag">>
ModulePrefix == <<"automl.frameworks.">>

\* lines 123-125: each sub-field the image lacks is taken from did
RECURSIVE FillDockerImage(_, _, _)
FillDockerImage(image, confs, did) ==
    IF confs = <<>> THEN image
    ELSE FillDockerImage(
            IF NsGet(image, Head(confs)) = None
            THEN NsSet(image, Head(confs), NsGet(did, Head(confs)))
            ELSE image,
            Tail(confs), did)

\* lines 120-125 as a mutation: an incomplete docker_image is replaced as a whole
DockerImageWholesale(fw, did) ==
    IF fw.docker_image = <<>> \/ DOMAIN fw.docker_image[1] # {"author", "image", "tag"}
    THEN did
    ELSE fw.docker_image[1]

\* lines 120-125: the docker_image of fw after validation
DockerImage(fw, did) ==
    FillDockerImage(IF fw.docker_image = <<>> THEN did ELSE fw.docker_image[1],
                    DockerConfs, did)

\* lines 110-125: the entry fw after _validate_framework under configuration cfg
ValidateFramework(fw, cfg) ==
    [name         |-> fw.name,
     module       |-> IF fw.module = <<>> THEN <<ModulePrefix \o fw.name>> ELSE fw.module,
     setup_args   |-> fw.setup_args,
     setup_cmd    |-> fw.setup_cmd,
     docker_image |-> <<DockerImage(fw, cfg.docker.image_defaults)>>]

(***************************************************************************)
(* _frameworks and framework_definition                                    *)
(***************************************************************************)
\* lines 65-67: the definition files merged in load order
RECURSIVE MergeFiles(_, _)
MergeFiles(od, fs) ==
    IF fs = <<>> THEN od
    ELSE MergeFiles(OdUpdate(od, Head(fs)), Tail(fs))

\* lines 69-71: every entry named by its key, then validated
NameAndValidate(od, cfg) ==
    [i \in DOMAIN od |->
        [k |-> od[i].k, v |-> ValidateFramework([od[i].v EXCEPT !.name = od[i].k], cfg)]]

\* lines 72-73 as a mutation: the key is not lowercased
RECURSIVE IndexAsDeclared(_, _)
IndexAsDeclared(od, snapshot) ==
    IF snapshot = <<>> THEN od
    ELSE IndexAsDeclared(OdSet(od, Head(snapshot).k, Head(snapshot).v), Tail(snapshot))

\* lines 72-73: every item of the snapshot is also set under its lowercased key
RECURSIVE IndexLower(_, _)
IndexLower(od, snapshot) ==
    IF snapshot = <<>> THEN od
    ELSE IndexLower(OdSet(od, Lower(Head(snapshot).k), Head(snapshot).v), Tail(snapshot))

\* lines 58-75: the registry built from the definition files
BuildFrameworks(fs, cfg) ==
    LET validated == NameAndValidate(MergeFiles(<<>>, fs), cfg)
    IN  IndexLower(validated, validated)

\* lines 53-56: the outcome of framework_definition(name) on the registry
LookupFramework(registry, name) ==
    LET found == OdGet(registry, Lower(name)) IN
    IF found = <<>>
    THEN [raised |-> "ValueError", framework |-> <<>>, name |-> <<>>]
    ELSE [raised |-> None, framework |-> found, name |-> found[1].name]

(***************************************************************************)
(* Paths (os.path, POSIX) on texts whose separator token is "/"            *)
(***************************************************************************)
\* the process's working directory, against which relative paths resolve
Cwd == <<"/", "u">>

IsAbs(p) == p # <<>> /\ p[1] = "/"

\* os.path.join(a, b): an absolute b discards a
Join(a, b) ==
    IF IsAbs(b) THEN b
    ELSE IF a = <<>> \/ a[Len(a)] = "/" THEN a \o b
    ELSE a \o <<"/">> \o b

\* the largest index of a token of p equal to tok, 0 when there is none
LastIndex(p, tok) ==
    IF \E i \in DOMAIN p : p[i] = tok
    THEN CHOOSE i \in DOMAIN p : p[i] = tok /\ \A j \in DOMAIN p : p[j] = tok => j <= i
    ELSE 0

\* os.path.basename(p): what follows the last separator
Basename(p) == SubSeq(p, LastIndex(p, "/") + 1, Len(p))

\* os.path.splitext(p)[0]: p up to its last extension, which a name never starts with
SplitextRoot(p) ==
    LET dot == LastIndex(p, ".yaml") IN
    IF dot > 1 /\ dot > LastIndex(p, "/") + 1 THEN SubSeq(p, 1, dot - 1) ELSE p

\* os.path.exists(p) on the files `fs` (path -> <<>> or <<content>>)
Exists(fs, p) ==
    LET full == IF IsAbs(p) THEN p ELSE Join(Cwd, p) IN
    full \in DOMAIN fs /\ fs[full] # <<>>

\* config_load(p): the content of the file
ConfigLoad(fs, p) == fs[IF IsAbs(p) THEN p ELSE Join(Cwd, p)][1]

(***************************************************************************)
(* benchmark_definition                                                    *)
(***************************************************************************)
\* lines 84-86: definition_dir is Str(path) or List(paths)
AsList(value) == IF value.kind = "list" THEN value.val ELSE <<value.val>>

\* lines 88-93: <<bf>> for the first directory whose bf exists, <<>> (None) otherwise
RECURSIVE FindInDirs(_, _, _)
FindInDirs(bds, name, fs) ==
    IF bds = <<>> THEN <<>>
    ELSE LET bf == Join(Head(bds), name \o <<".yaml">>) IN
         IF Exists(fs, bf) THEN <<bf>> ELSE FindInDirs(Tail(bds), name, fs)

\* lines 83-101: the file and the benchmark name that `name` resolves to
ResolveBenchmark(name, cfg, fs) ==
    LET found == FindInDirs(AsList(cfg.benchmarks.definition_dir), name, fs)
        benchmark_file == IF found = <<>> THEN name ELSE found[1]
        benchmark_name == IF found = <<>> THEN SplitextRoot(Basename(name)) ELSE name
    IN  IF ~Exists(fs, benchmark_file)
        THEN [raised |-> "ValueError", file |-> <<>>, name |-> <<>>]
        ELSE [raised |-> None, file |-> benchmark_file, name |-> benchmark_name]

\* lines 105-106: the tasks validated in order, `done` being those validated so
\* far; the first failure raises
RECURSIVE ValidateTasksFrom(_, _, _)
ValidateTasksFrom(tasks, cfg, done) ==
    IF tasks = <<>> THEN [raised |-> None, tasks |-> done]
    ELSE IF ValidateTask(Head(tasks), cfg).raised # None
    THEN [raised |-> ValidateTask(Head(tasks), cfg).raised, tasks |-> <<>>]
    ELSE ValidateTasksFrom(Tail(tasks), cfg, Append(done, ValidateTask(Head(tasks), cfg).task))

ValidateTasks(tasks, cfg) == ValidateTasksFrom(tasks, cfg, <<>>)

NoResult == [tasks |-> <<>>, name |-> <<>>, file |-> <<>>]

\* lines 83-108: the body of benchmark_definition: its outcome, and whether a
\* definition file was read
BenchmarkBody(name, cfg, fs) ==
    LET where == ResolveBenchmark(name, cfg, fs) IN
    IF where.raised # None
    THEN [raised |-> where.raised, read |-> FALSE, result |-> NoResult]
    ELSE LET valid == ValidateTasks(ConfigLoad(fs, where.file), cfg) IN
         IF valid.raised # None
         THEN [raised |-> valid.raised, read |-> TRUE, result |-> NoResult]
         ELSE [raised |-> None, read |-> TRUE,
               result |-> [tasks |-> valid.tasks, name |-> where.name, file |-> where.file]]

\* line 77 as a mutation: no memoization, the body runs on every call
BenchmarkCallNoMemo(name, cache, cfg, fs) ==
    LET out == BenchmarkBody(name, cfg, fs) IN
    [out |-> out,
     cache |-> IF out.raised = None THEN NsSet(cache, name, out.result) ELSE cache]

\* lines 77-108: benchmark_definition(name) behind @memoize: a name in the cache is
\* answered from it; otherwise the body runs, and its result is cached unless it raised
BenchmarkCall(name, cache, cfg, fs) ==
    IF name \in DOMAIN cache
    THEN [out |-> [raised |-> None, read |-> FALSE, result |-> cache[name]], cache |-> cache]
    ELSE LET out == BenchmarkBody(name, cfg, fs) IN
         [out |-> out,
          cache |-> IF out.raised = None THEN NsSet(cache, name, out.result) ELSE cache]

(***************************************************************************)
(* str.format and normalize_path                                           *)
(***************************************************************************)
\* the smallest index >= from of a token of s equal to tok, 0 when there is none
IndexFrom(s, tok, from) ==
    IF \E i \in from..Len(s) : s[i] = tok
    THEN CHOOSE i \in from..Len(s) : s[i] = tok /\ \A j \in from..Len(s) : s[j] = tok => i <= j
    ELSE 0

FormatError == [raised |-> "FormatError", text |-> <<>>]

\* str.format from token i of s on, `done` being the text produced so far
RECURSIVE FormatFrom(_, _, _, _)
FormatFrom(s, i, replace, done) ==
    IF i > Len(s) THEN [raised |-> None, text |-> done]
    ELSE IF s[i] \notin {"{", "}"} THEN FormatFrom(s, i + 1, replace, Append(done, s[i]))
    ELSE IF i < Len(s) /\ s[i + 1] = s[i] THEN FormatFrom(s, i + 2, replace, Append(done, s[i]))
    ELSE IF s[i] = "}" \/ IndexFrom(s, "}", i + 1) = 0 THEN FormatError
    ELSE LET close == IndexFrom(s, "}", i + 1) IN
         IF \E j \in (i + 1)..(close - 1) : s[j] = "{" THEN FormatError
         ELSE IF SubSeq(s, i + 1, close - 1) \notin DOMAIN replace THEN FormatError
         ELSE FormatFrom(s, close + 1, replace, done \o replace[SubSeq(s, i + 1, close - 1)])

\* path.format(**replace): "{{" and "}}" are the escapes of "{" and "}", "{key}" is
\* replaced by replace[key]; a lone brace, an unclosed field or an unknown key
\* raises (ValueError, KeyError, IndexError: FormatError here)
Format(s, replace) == FormatFrom(s, 1, replace, <<>>)

\* the user's home directory
Home == <<"/", "home">>

\* os.path.expanduser(p): a leading "~" component is the home directory
ExpandUser(p) ==
    IF p # <<>> /\ p[1] = "~" /\ (Len(p) = 1 \/ p[2] = "/")
    THEN Home \o Tail(p)
    ELSE p

\* the components of p: what lies between separators, empty components dropped
RECURSIVE Components(_)
Components(p) ==
    IF p = <<>> THEN <<>>
    ELSE LET sep == IndexFrom(p, "/", 1) IN
         IF sep = 0 THEN <<p>>
         ELSE (IF sep = 1 THEN <<>> ELSE <<SubSeq(p, 1, sep - 1)>>)
              \o Components(SubSeq(p, sep + 1, Len(p)))

\* ".." drops the component before it (none at the root), "." is dropped
RECURSIVE Collapse(_, _)
Collapse(done, comps) ==
    IF comps = <<>> THEN done
    ELSE IF Head(comps) = <<".">> THEN Collapse(done, Tail(comps))
    ELSE IF Head(comps) = <<"..">>
         THEN Collapse(IF done = <<>> THEN done ELSE SubSeq(done, 1, Len(done) - 1), Tail(comps))
    ELSE Collapse(Append(done, Head(comps)), Tail(comps))

RECURSIVE Unsplit(_)
Unsplit(comps) ==
    IF comps = <<>> THEN <<>> ELSE <<"/">> \o Head(comps) \o Unsplit(Tail(comps))

\* os.path.realpath(p) where no file is a symbolic link
RealPath(p) ==
    LET comps == Collapse(<<>>, Components(IF IsAbs(p) THEN p ELSE Join(Cwd, p)))
    IN  IF comps = <<>> THEN <<"/">> ELSE Unsplit(comps)

\* normalize_path(p): absolute and canonical
NormalizePath(p) == RealPath(ExpandUser(p))

(***************************************************************************)
(* Resources._normalize                                                    *)
(* The keys of a configuration are texts; "_dir", "_file", "_cmd" and "s"  *)
(* are tokens of keys.                                                     *)
(***************************************************************************)
\* line 30: re.search(r'_(dir|file|cmd)s?$', k)
IsPathKey(k) ==
    LET n == Len(k) IN
    \/ n >= 1 /\ k[n] \in {"_dir", "_file", "_cmd"}
    \/ n >= 2 /\ k[n] = "s" /\ k[n - 1] \in {"_dir", "_file", "_cmd"}

\* lines 21-24 as a mutation: the path is normalized before its placeholders are replaced
NzPathNormalizeFirst(path, replace) ==
    IF replace = <<>> THEN [raised |-> None, text |-> NormalizePath(path)]
    ELSE Format(NormalizePath(path), replace[1])

\* lines 21-24: nz_path; replace is <<>> (None) or <<the placeholder mapping>>
NzPath(path, replace) ==
    IF replace = <<>> THEN [raised |-> None, text |-> NormalizePath(path)]
    ELSE LET formatted == Format(path, replace[1]) IN
         IF formatted.raised # None THEN formatted
         ELSE [raised |-> None, text |-> NormalizePath(formatted.text)]

\* line 31: the value v of a path key, normalized; a value that is neither a
\* text nor a list of texts has no format method and is no path
NzValue(v, replace) ==
    IF v.kind = "str"
    THEN LET one == NzPath(v.val, replace) IN
         [raised |-> one.raised, value |-> Str(one.text)]
    ELSE IF v.kind = "list"
    THEN IF \E i \in DOMAIN v.val : NzPath(v.val[i], replace).raised # None
         THEN [raised |-> "FormatError", value |-> List(<<>>)]
         ELSE [raised |-> None,
               value |-> List([i \in DOMAIN v.val |-> NzPath(v.val[i], replace).text])]
    ELSE [raised |-> "TypeError", value |-> v]

\* lines 26-32: whether _normalize(cfg, replace) raises
RECURSIVE NormalizeRaises(_, _)
NormalizeRaises(cfg, replace) ==
    \E k \in DOMAIN cfg :
        IF cfg[k].kind = "ns" THEN NormalizeRaises(cfg[k].val, replace)
        ELSE IsPathKey(k) /\ NzValue(cfg[k], replace).raised # None

\* lines 26-32: the configuration _normalize(cfg, replace) returns when it does not raise
RECURSIVE NormalizeTree(_, _)
NormalizeTree(cfg, replace) ==
    [k \in DOMAIN cfg |->
        IF cfg[k].kind = "ns" THEN Ns(NormalizeTree(cfg[k].val, replace))
        ELSE IF IsPathKey(k) THEN NzValue(cfg[k], replace).value
        ELSE cfg[k]]

\* lines 19-32: the outcome of Resources._normalize(cfg, replace)
Normalize(cfg, replace) ==
    IF NormalizeRaises(cfg, replace)
    THEN [raised |-> "Error", tree |-> EmptyNs]
    ELSE [raised |-> None, tree |-> NormalizeTree(cfg, replace)]

(***************************************************************************)
(* Resources.__init__, from_config, from_configs, get, config              *)
(***************************************************************************)
InputDir == <<"input", "_dir">>
OutputDir == <<"output", "_dir">>
UserDir == <<"user", "_dir">>
PredictionsDir == <<"predictions", "_dir">>
ScoresDir == <<"scores", "_dir">>
LogsDir == <<"logs", "_dir">>

\* Namespace.merge(a, b, deep=True): b's values win, nested Namespaces are merged
RECURSIVE MergeTwo(_, _)
MergeTwo(a, b) ==
    [k \in (DOMAIN a) \cup (DOMAIN b) |->
        IF k \notin DOMAIN b THEN a[k]
        ELSE IF k \notin DOMAIN a THEN b[k]
        ELSE IF a[k].kind = "ns" /\ b[k].kind = "ns" THEN Ns(MergeTwo(a[k].val, b[k].val))
        ELSE b[k]]

\* Namespace.merge(*configs, deep=True)
RECURSIVE Merge(_)
Merge(configs) ==
    IF configs = <<>> THEN EmptyNs
    ELSE MergeTwo(Merge(SubSeq(configs, 1, Len(configs) - 1)), configs[Len(configs)])

\* line 35: the placeholders input, output and user, from the raw configuration
Placeholders(cfg) ==
    [key \in {<<"input">>, <<"output">>, <<"user">>} |->
        IF key = <<"input">> THEN cfg[InputDir].val
        ELSE IF key = <<"output">> THEN cfg[OutputDir].val
        ELSE cfg[UserDir].val]

\* lines 36-38: the three directories under the normalized output directory
WithOutputDirs(tree) ==
    LET out == tree[OutputDir].val IN
    NsSet(NsSet(NsSet(tree,
        PredictionsDir, Str(Join(out, <<"predictions">>))),
        ScoresDir, Str(Join(out, <<"scores">>))),
        LogsDir, Str(Join(out, <<"logs">>)))

\* lines 39-41: the directories created when the fault-th makedirs fails (0: none fails)
MadeDirs(tree, fault) ==
    LET all == <<tree[PredictionsDir].val, tree[ScoresDir].val, tree[LogsDir].val>> IN
    IF fault = 0 THEN all ELSE SubSeq(all, 1, fault - 1)

NoEffect(error) == [raised |-> error, config |-> EmptyNs, made |-> <<>>, path |-> <<>>]

\* The rest of __init__ once the three base directories were read (lines 35-45)
InitFrom(cfg, fault) ==
    LET normalized == Normalize(cfg, <<Placeholders(cfg)>>) IN
    IF normalized.raised # None THEN NoEffect(normalized.raised)
    ELSE LET tree == WithOutputDirs(normalized.tree) IN
         IF fault # 0
         THEN [raised |-> "OSError", config |-> EmptyNs,
               made |-> MadeDirs(tree, fault), path |-> <<>>]
         ELSE [raised |-> None, config |-> tree, made |-> MadeDirs(tree, fault),
               path |-> <<NormalizePath(cfg[UserDir].val), NormalizePath(cfg[InputDir].val)>>]

\* lines 34-46 as a mutation: a missing output_dir falls back to the working directory
ResourcesInitDefaultOutput(cfg, fault) ==
    IF InputDir \notin DOMAIN cfg \/ UserDir \notin DOMAIN cfg THEN NoEffect("AttributeError")
    ELSE IF OutputDir \notin DOMAIN cfg THEN InitFrom(NsSet(cfg, OutputDir, Str(<<>>)), fault)
    ELSE InitFrom(cfg, fault)

\* lines 34-46 as a mutation: sys.path is extended before the directories are made
ResourcesInitPathFirst(cfg, fault) ==
    IF \E key \in {InputDir, OutputDir, UserDir} : key \notin DOMAIN cfg
    THEN NoEffect("AttributeError")
    ELSE LET out == InitFrom(cfg, fault)
             tried == InitFrom(cfg, 0)
         IN  IF out.raised = "OSError" THEN [out EXCEPT !.path = tried.path] ELSE out

\* lines 34-46: the outcome of Resources(cfg): the error raised if any, self.config,
\* the directories made on disk and what sys.path is extended with.
\* config.input_dir, config.output_dir and config.user_dir are read first (line 35):
\* reading an attribute the Namespace lacks raises AttributeError.
ResourcesInit(cfg, fault) ==
    IF \E key \in {InputDir, OutputDir, UserDir} : key \notin DOMAIN cfg
    THEN NoEffect("AttributeError")
    ELSE InitFrom(cfg, fault)

\* lines 149-156 as a mutation: a failed initialization clears the singleton
AssignInstanceOrClear(instance, out, fresh) == IF out.raised = None THEN fresh ELSE 0

\* lines 151 and 156: __INSTANCE__ is assigned only when Resources(...) returns
AssignInstance(instance, out, fresh) == IF out.raised = None THEN fresh ELSE instance

(***************************************************************************)
(* The inputs the specifications range over                                *)
(***************************************************************************)
MaxNameLen == 2
MaxLen == 3
MaxCalls == 3
MaxNormalizations == 2

\* every text of at most n tokens of alphabet
TextsOver(alphabet, n) == UNION {[1..k -> alphabet] : k \in 0..n}

\* every Namespace over some of `keys`, a present key k holding a value of vals[k]
Namespaces(keys, vals) ==
    UNION {{ns \in [d -> UNION {vals[k] : k \in keys}] : \A k \in d : ns[k] \in vals[k]}
           : d \in SUBSET keys}

DirA == <<"/", "A">>
DirB == <<"/", "B">>

DefaultsA ==
    [c \in {"max_runtime_seconds", "cores", "folds", "max_mem_size_mb"} |->
        IF c = "max_runtime_seconds" THEN "3600" ELSE IF c = "cores" THEN "8"
        ELSE IF c = "folds" THEN "10" ELSE "-1"]
DefaultsB ==
    [c \in {"max_runtime_seconds", "cores", "folds", "max_mem_size_mb"} |->
        IF c = "max_runtime_seconds" THEN "600" ELSE IF c = "cores" THEN "0"
        ELSE IF c = "folds" THEN "3" ELSE "2048"]
DidA == [c \in {"author", "image", "tag"} |->
            IF c = "author" THEN "automlbenchmark" ELSE IF c = "image" THEN "base" ELSE "stable"]
DidB == [c \in {"author", "image", "tag"} |->
            IF c = "author" THEN "own" ELSE IF c = "image" THEN "img" ELSE "latest"]

\* self.config, as far as the validators and the resolvers read it
MkConfig(defaults, ec2, did, definition_dir) ==
    [benchmarks |-> [defaults |-> defaults, definition_dir |-> definition_dir],
     aws |-> [ec2 |-> [instance_type |-> ec2]],
     docker |-> [image_defaults |-> did]]

ConfigA == MkConfig(DefaultsA, "m5.large", DidA, List(<<DirA, DirB>>))
ConfigB == MkConfig(DefaultsB, "c5.xlarge", DidB, List(<<DirB, DirA>>))
ConfigC == MkConfig(DefaultsA, "m5.large", DidA, Str(DirA))

Idle == <<>>
IdleTask == task = Idle /\ taskRet = Idle
IdleFw == framework = Idle /\ fwGiven = Idle
IdleReg == fwFiles = Idle /\ frameworks = Idle /\ fwRet = Idle
IdleBench == files = Idle /\ memo = Idle /\ first = Idle /\ benchRet = Idle
IdleNorm == normTree = Idle /\ normReplace = Idle /\ normHist = Idle
IdleProc ==
    /\ __INSTANCE__ = 0 /\ objs = Idle /\ sys_path = Idle
    /\ dirs = {} /\ ret = Idle /\ calls = 0

(***************************************************************************)
(* _validate_task on every task entry                                      *)
(***************************************************************************)
TaskValues ==
    [c \in {"name", "openml_task_id", "metric", "max_runtime_seconds", "cores", "folds",
            "max_mem_size_mb", "ec2_instance_type"} |->
        IF c \in {"name", "openml_task_id", "metric"} THEN {None, "v"} ELSE {None, "0", "3"}]

Tasks == Namespaces(DOMAIN TaskValues, TaskValues)

NotCalled == [raised |-> "not called"]

InitTask ==
    /\ self_config \in {ConfigA, ConfigB}
    /\ task \in Tasks
    /\ taskRet = NotCalled
    /\ IdleFw /\ IdleReg /\ IdleBench /\ IdleNorm /\ IdleProc

\* lines 127-143
_validate_task ==
    /\ taskRet = NotCalled
    /\ \E out \in {ValidateTask(task, self_config)} :
        /\ task' = out.task
        /\ taskRet' = [raised |-> out.raised, missing |-> out.missing, given |-> task]
    /\ UNCHANGED <<self_config, fwVars, regVars, benchVars, normVars, procVars>>

NextTask == _validate_task

SpecTask == InitTask /\ [][NextTask]_vars

\* the mandatory properties that the task entry t lacks (no key, or a null value)
AbsentIn(t, confs) == {c \in confs : c \notin DOMAIN t \/ t[c] = None}

RequiredRank(c) == IF c = "name" THEN 1 ELSE IF c = "openml_task_id" THEN 2 ELSE 3

\* C1: _validate_task raises exactly when one of name, openml_task_id, metric is
\* absent, and its one error lists every absent property among the three, and only
\* those, in the order name, openml_task_id, metric.
C1_AllMissingListed ==
    taskRet # NotCalled =>
        LET absent == AbsentIn(taskRet.given, {"name", "openml_task_id", "metric"})
            missing == taskRet.missing
        IN  /\ taskRet.raised = (IF absent # {} THEN "ValueError" ELSE None)
            /\ {missing[i] : i \in DOMAIN missing} = absent
            /\ \A i, j \in DOMAIN missing :
                  i < j => RequiredRank(missing[i]) < RequiredRank(missing[j])

C1_Witness ==
    /\ taskRet # NotCalled
    /\ taskRet.raised = "ValueError"
    /\ taskRet.missing = <<"name", "metric">>

\* the default that the configuration holds for an optional property
DefaultFor(cfg, c) ==
    IF c = "ec2_instance_type" THEN cfg.aws.ec2.instance_type
    ELSE cfg.benchmarks.defaults[c]

OptionalConfs == {"max_runtime_seconds", "cores", "folds", "max_mem_size_mb", "ec2_instance_type"}

\* C2: once _validate_task returned, each of the five optional properties holds a
\* non-null value: the declared one where the task declared it, the configured
\* default where it did not, whatever the other properties are.
C2_DefaultsFilled ==
    (taskRet # NotCalled /\ taskRet.raised = None) =>
        \A c \in OptionalConfs :
            /\ c \in DOMAIN task /\ task[c] # None
            /\ task[c] = (IF AbsentIn(taskRet.given, {c}) = {}
                          THEN taskRet.given[c]
                          ELSE DefaultFor(self_config, c))

C2_Witness ==
    /\ taskRet # NotCalled /\ taskRet.raised = None
    /\ self_config = ConfigA
    /\ "folds" \in DOMAIN taskRet.given /\ taskRet.given["folds"] = "3"
    /\ task["folds"] = "3"
    /\ "cores" \in DOMAIN taskRet.given /\ taskRet.given["cores"] = "0"
    /\ "max_mem_size_mb" \notin DOMAIN taskRet.given
    /\ task["max_mem_size_mb"] = "-1"
    /\ "ec2_instance_type" \notin DOMAIN taskRet.given

(***************************************************************************)
(* _validate_framework on every framework entry                            *)
(***************************************************************************)
\* framework names: the casings of a, aa, ..., and one name of another letter
FwNames == (TextsOver({"a", "A"}, MaxNameLen) \ {<<>>}) \cup {<<"b">>}

DockerValues == [c \in {"author", "image", "tag"} |-> {None, "x"}]

DeclaredDockerImages == {<<>>} \cup {<<image>> : image \in Namespaces({"author", "image", "tag"}, DockerValues)}

InitFramework ==
    /\ self_config \in {ConfigA, ConfigB}
    /\ framework \in [name : {<<"a">>, <<"A", "b">>},
                      module : {<<>>, << <<"m">> >>},
                      setup_args : {None, "x"},
                      setup_cmd : {None, "x"},
                      docker_image : DeclaredDockerImages]
    /\ fwGiven = <<>>
    /\ IdleTask /\ IdleReg /\ IdleBench /\ IdleNorm /\ IdleProc

\* lines 110-125
_validate_framework ==
    /\ fwGiven = <<>>
    /\ framework' = ValidateFramework(framework, self_config)
    /\ fwGiven' = <<framework>>
    /\ UNCHANGED <<self_config, taskVars, regVars, benchVars, normVars, procVars>>

NextFramework == _validate_framework

SpecFramework == InitFramework /\ [][NextFramework]_vars

\* whether the given entry declared sub-field c of docker_image
DeclaresDocker(fw, c) ==
    /\ fw.docker_image # <<>>
    /\ c \in DOMAIN fw.docker_image[1]
    /\ fw.docker_image[1][c] # None

\* C4: after _validate_framework, docker_image.author, .image and .tag each hold the
\* value the entry declared where it declared one and the corresponding sub-field of
\* config.docker.image_defaults where it did not: an entry without docker_image ends
\* with the three defaults, a partial docker_image is filled field by field.
C4_DockerImageFilled ==
    fwGiven # <<>> =>
        /\ framework.docker_image # <<>>
        /\ \A c \in {"author", "image", "tag"} :
              /\ c \in DOMAIN framework.docker_image[1]
              /\ framework.docker_image[1][c] =
                    (IF DeclaresDocker(fwGiven[1], c)
                     THEN fwGiven[1].docker_image[1][c]
                     ELSE self_config.docker.image_defaults[c])

C4_Witness ==
    /\ fwGiven # <<>>
    /\ self_config = ConfigA
    /\ fwGiven[1].docker_image # <<>>
    /\ DOMAIN fwGiven[1].docker_image[1] = {"tag"}
    /\ fwGiven[1].docker_image[1]["tag"] = "x"
    /\ framework.docker_image[1]["tag"] = "x"
    /\ framework.docker_image[1]["author"] = "automlbenchmark"
    /\ framework.docker_image[1]["image"] = "base"

(***************************************************************************)
(* The framework registry and framework_definition                         *)
(***************************************************************************)
\* an entry as a definition file declares it: its name is its key
Declared(docker_image) ==
    [name |-> <<>>, module |-> <<>>, setup_args |-> None, setup_cmd |-> None,
     docker_image |-> docker_image]

FwItems ==
    [k : FwNames, v : {Declared(<<>>), Declared(<<[c \in {"tag"} |-> "x"]>>)}]

\* a definition file: one or two entries under distinct keys, in file order
FwFile ==
    {<<one>> : one \in FwItems}
    \cup {<<pair[1], pair[2]>> : pair \in {p \in FwItems \X FwItems : p[1].k # p[2].k}}

NoLookup == [raised |-> "not called"]

InitRegistry ==
    /\ self_config = ConfigA
    /\ fwFiles \in {<<file>> : file \in FwFile}
                   \cup {<<<<one>>, <<two>>>> : one \in FwItems, two \in FwItems}
    /\ frameworks = <<>>
    /\ fwRet = NoLookup
    /\ IdleTask /\ IdleFw /\ IdleBench /\ IdleNorm /\ IdleProc

\* lines 48-56; the first call computes the lazy property _frameworks (lines 58-75)
framework_definition(name) ==
    /\ \E registry \in {IF frameworks = <<>>
                          THEN BuildFrameworks(fwFiles, self_config)
                          ELSE frameworks[1]} :
        /\ frameworks' = <<registry>>
        /\ fwRet' = [asked |-> name] @@ LookupFramework(registry, name)
    /\ UNCHANGED <<self_config, fwFiles, taskVars, fwVars, benchVars, normVars, procVars>>

NextRegistry == \E name \in FwNames : framework_definition(name)

SpecRegistry == InitRegistry /\ [][NextRegistry]_vars

\* the items the definition files declare: for a key declared twice, the last one
DeclaredItems ==
    LET all == {fwFiles[f][i] : <<f, i>> \in
                    {<<f, i>> \in (DOMAIN fwFiles) \X (1..2) : i \in DOMAIN fwFiles[f]}}
        last == fwFiles[Len(fwFiles)]
    IN  {item \in all :
            \/ \E i \in DOMAIN last : last[i] = item
            \/ \A i \in DOMAIN last : last[i].k # item.k}

\* C3: once the registry is built, every declared framework is indexed under its
\* own key and under its lowercased name, both holding its own entry, and
\* framework_definition with any casing of a declared name N returns the entry
\* declared as N and the name N.
C3_CaseInsensitiveRegistry ==
    frameworks # <<>> =>
        \A item \in DeclaredItems :
            LET own == ValidateFramework([item.v EXCEPT !.name = item.k], self_config) IN
            /\ OdGet(frameworks[1], item.k) = <<own>>
            /\ OdGet(frameworks[1], Lower(item.k)) = <<own>>
            /\ (fwRet # NoLookup /\ Lower(fwRet.asked) = Lower(item.k)) =>
                  (fwRet.raised = None /\ fwRet.framework = <<own>> /\ fwRet.name = item.k)

\* C3 where no two declared names differ only by their case
C3_DistinctLowercase ==
    (\A i, j \in DeclaredItems : Lower(i.k) = Lower(j.k) => i.k = j.k)
        => C3_CaseInsensitiveRegistry

C3_DistinctWitness ==
    /\ frameworks # <<>>
    /\ \E i, j \in DeclaredItems : Lower(i.k) # Lower(j.k)
    /\ fwRet # NoLookup /\ fwRet.raised = None
    /\ fwRet.asked # fwRet.name

(***************************************************************************)
(* benchmark_definition, while the files on disk come and go               *)
(***************************************************************************)
FileAT == <<"/", "A", "/", "t", ".yaml">>
FileBT == <<"/", "B", "/", "t", ".yaml">>
FileUT == <<"/", "u", "/", "t", ".yaml">>
FileU == <<"/", "u", "/", "t">>
BenchPaths == {FileAT, FileBT, FileUT, FileU}

\* what is asked for: a benchmark name, and paths with and without the extension
BenchNames == {<<"t">>, <<"/", "u", "/", "t">>, <<"/", "u", "/", "t", ".yaml">>}

TaskFull ==
    [c \in DOMAIN TaskValues |-> IF c \in {"name", "openml_task_id", "metric"} THEN "v" ELSE "3"]
TaskBare == [c \in {"name", "openml_task_id", "metric"} |-> "v"]
TaskNoMetric == [c \in {"name", "openml_task_id"} |-> "v"]

\* a definition file holds a list of tasks: a valid one, and one whose last task
\* lacks its metric
Contents == {<<TaskBare, TaskFull>>, <<TaskFull, TaskNoMetric>>}

NoCall == [raised |-> "not called"]

InitBenchmark ==
    /\ self_config \in {ConfigA, ConfigB, ConfigC}
    /\ files \in [BenchPaths -> {<<>>} \cup {<<content>> : content \in Contents}]
    /\ memo = EmptyNs
    /\ first = EmptyNs
    /\ benchRet = NoCall
    /\ IdleTask /\ IdleFw /\ IdleReg /\ IdleNorm /\ IdleProc

\* lines 77-108
benchmark_definition(name) ==
    /\ \E call \in {BenchmarkCall(name, memo, self_config, files)} :
        /\ memo' = call.cache
        /\ benchRet' = [asked |-> name, repeat |-> name \in DOMAIN first] @@ call.out
        /\ first' = IF call.out.raised = None /\ name \notin DOMAIN first
                    THEN NsSet(first, name, call.out.result)
                    ELSE first
    /\ UNCHANGED <<self_config, files, taskVars, fwVars, regVars, normVars, procVars>>

\* the environment writes, rewrites or removes a definition file
WriteFile(path, content) ==
    /\ files[path] # content
    /\ files' = [files EXCEPT ![path] = content]
    /\ UNCHANGED <<self_config, memo, first, benchRet,
                   taskVars, fwVars, regVars, normVars, procVars>>

NextBenchmark ==
    \/ \E name \in BenchNames : benchmark_definition(name)
    \/ \E path \in BenchPaths, content \in {<<>>} \cup {<<c>> : c \in Contents} :
          WriteFile(path, content)

SpecBenchmark == InitBenchmark /\ [][NextBenchmark]_vars

\* C5: on one Resources instance, a benchmark_definition call for a name that
\* resolved before returns the result of the first call for that name and reads no
\* definition file, whatever happened to the files on disk in between.
C5_RepeatedCallCached ==
    (benchRet # NoCall /\ benchRet.repeat) =>
        /\ benchRet.raised = None
        /\ benchRet.result = first[benchRet.asked]
        /\ ~benchRet.read

\* a repeated call answered while the files on disk no longer give that answer
C5_Witness ==
    /\ benchRet # NoCall /\ benchRet.repeat
    /\ benchRet.raised = None /\ ~benchRet.read
    /\ LET fresh == BenchmarkBody(benchRet.asked, self_config, files) IN
       fresh.raised # None \/ fresh.result # benchRet.result

\* the file {name}.yaml of directory bd
FileOfDir(bd, name) == bd \o <<"/">> \o name \o <<".yaml">>

\* what C6 states of a call benchmark_definition(name) that returned `out`, the
\* configured directories being bds and the files on disk fs
FirstDirectoryOrPath(name, bds, fs, out) ==
    LET holders == {i \in DOMAIN bds :
                        /\ FileOfDir(bds[i], name) \in DOMAIN fs
                        /\ fs[FileOfDir(bds[i], name)] # <<>>}
        firstHolder == CHOOSE i \in holders : \A j \in holders : i <= j
    IN  IF holders # {}
        THEN /\ out.result.file = FileOfDir(bds[firstHolder], name)
             /\ out.result.name = name
        ELSE /\ out.result.file = name
             /\ out.result.name = SplitextRoot(Basename(name))

ConfiguredDirs ==
    IF self_config.benchmarks.definition_dir.kind = "list"
    THEN self_config.benchmarks.definition_dir.val
    ELSE <<self_config.benchmarks.definition_dir.val>>

\* C6: benchmark_definition(name) resolves to the file {name}.yaml of the first
\* configured directory that contains such a file, with benchmark_name = name; only
\* when no configured directory contains it is name itself the file path, with
\* benchmark_name its filename without extension.
C6_FirstDirectoryWins ==
    [][\A name \in BenchNames :
          (benchmark_definition(name) /\ name \notin DOMAIN memo /\ benchRet'.raised = None)
              => FirstDirectoryOrPath(name, ConfiguredDirs, files, benchRet')]_vars

(***************************************************************************)
(* Resources._normalize applied again and again                            *)
(***************************************************************************)
PathTexts == TextsOver({"/", "~", "..", "a", "input", "{", "}"}, MaxLen)

KeyADir == <<"a", "_dir">>
KeyFiles == <<"b", "_file", "s">>
KeyCmd == <<"c", "_cmd">>
KeyName == <<"name">>
KeyDirX == <<"_dir", "x">>
KeySub == <<"sub">>

\* the configurations that hold text s: under a path key, under another key, in a
\* list of paths, in a nested Namespace; and one whose path key holds no text
TreesWith(s) ==
    { [k \in {KeyADir} |-> Str(s)],
      [k \in {KeyName, KeyDirX} |-> Str(s)],
      [k \in {KeyFiles} |-> List(<<s, <<"a">>, <<"{", "input", "}", "/", "a">>>>)],
      [k \in {KeySub, KeyName} |->
            IF k = KeySub THEN Ns([j \in {KeyCmd, KeyName} |-> Str(s)]) ELSE Other("1")],
      [k \in {KeyADir, KeyCmd} |-> IF k = KeyADir THEN Str(s) ELSE Other(None)] }

\* the placeholder mappings: none, and input standing for a few paths
Replaces ==
    {<<>>} \cup
    {<<[key \in {<<"input">>} |-> value]>> :
        value \in {<<"~", "/", "a">>, <<"/", "/", "a", "/">>, <<"a", "/", "..">>,
                   <<"{", "input", "}">>, <<"{", "{">>}}

InitNormalize ==
    /\ normReplace \in Replaces
    /\ \E s \in PathTexts : normTree \in TreesWith(s)
    /\ normHist = <<>>
    /\ self_config = Idle
    /\ IdleTask /\ IdleFw /\ IdleReg /\ IdleBench /\ IdleProc

\* lines 19-32: _normalize on the configuration as given, then on its own output
_normalize ==
    /\ Len(normHist) < MaxNormalizations
    /\ IF normHist = <<>> THEN TRUE ELSE normHist[Len(normHist)].raised = None
    /\ normHist' = Append(normHist,
                      Normalize(IF normHist = <<>> THEN normTree
                                ELSE normHist[Len(normHist)].tree, normReplace))
    /\ UNCHANGED <<self_config, normTree, normReplace,
                   taskVars, fwVars, regVars, benchVars, procVars>>

NextNormalize == _normalize

SpecNormalize == InitNormalize /\ [][NextNormalize]_vars

\* C8: _normalize is idempotent on its own output, for every configuration and
\* every placeholder mapping.
C8_Idempotent ==
    (Len(normHist) >= 2 /\ normHist[1].raised = None) => normHist[2] = normHist[1]

\* whether a path value of the configuration holds a brace
RECURSIVE HasBrace(_)
HasBrace(cfg) ==
    \E k \in DOMAIN cfg :
        IF cfg[k].kind = "ns" THEN HasBrace(cfg[k].val)
        ELSE /\ IsPathKey(k)
             /\ IF cfg[k].kind = "str" THEN \E i \in DOMAIN cfg[k].val : cfg[k].val[i] \in {"{", "}"}
                ELSE \E p \in DOMAIN cfg[k].val :
                        \E i \in DOMAIN cfg[k].val[p] : cfg[k].val[p][i] \in {"{", "}"}

\* C8, amended: _normalize is idempotent on its own output when no placeholder
\* mapping is given or no path value of that output holds a brace.
C8_IdempotentWithoutBraces ==
    \A n \in 1..(Len(normHist) - 1) :
        (normHist[n].raised = None /\ (normReplace = <<>> \/ ~HasBrace(normHist[n].tree)))
            => normHist[n + 1] = normHist[n]

\* a placeholder was replaced and a path made canonical, and the second pass
\* changed nothing
C8_Witness ==
    /\ Len(normHist) >= 2
    /\ normReplace # <<>> /\ normReplace[1][<<"input">>] = <<"/", "/", "a", "/">>
    /\ KeyADir \in DOMAIN normTree /\ normTree[KeyADir] = Str(<<"{", "input", "}">>)
    /\ normHist[1].raised = None
    /\ normHist[1].tree[KeyADir] = Str(<<"/", "a">>)
    /\ normHist[2] = normHist[1]

(***************************************************************************)
(* The process: from_config, from_configs, get and config, in any order    *)
(***************************************************************************)
\* sys.path before the module is used
BasePath == << <<"/", "lib">> >>

KeyBenchmarks == <<"benchmarks">>
KeyDefinitionDir == <<"definition", "_dir">>
KeyMode == <<"mode">>

\* a run configuration with its three base directories
RawConfig(input, output, user) ==
    [k \in {InputDir, OutputDir, UserDir, KeyBenchmarks, KeyMode} |->
        IF k = InputDir THEN Str(input)
        ELSE IF k = OutputDir THEN Str(output)
        ELSE IF k = UserDir THEN Str(user)
        ELSE IF k = KeyBenchmarks
        THEN Ns([j \in {KeyDefinitionDir} |->
                    List(<< <<"{", "user", "}", "/", "b">>, <<"{", "input", "}">> >>)])
        ELSE Other("local")]

\* the configuration cfg without key k
Without(cfg, k) == [j \in (DOMAIN cfg) \ {k} |-> cfg[j]]

RawA == RawConfig(<<"~", "/", "in">>, <<"out">>, <<"~", "/", "usr">>)
RawB == RawConfig(<<"/", "in2">>, <<"/", "o2", "/">>, <<"usr2">>)
\* a path that names a placeholder the initializer does not provide
RawUnknownPlaceholder == NsSet(RawA, KeyCmd, Str(<<"{", "root", "}", "/", "run">>))
OutputOnly == [k \in {OutputDir} |-> Str(<<"/", "o2">>)]

RawConfigs == {RawA, RawB, Without(RawA, OutputDir), Without(RawB, InputDir),
               Without(RawA, UserDir), RawUnknownPlaceholder}

RawConfigLists ==
    {<<RawA, OutputOnly>>, <<Without(RawA, OutputDir), OutputOnly>>,
     <<Without(RawA, OutputDir), Without(RawB, OutputDir)>>, <<RawB>>}

\* makedirs may fail at the first, the second or the third directory (0: it does not)
Faults == 0..3

Returned(op, raised, arg, value) ==
    [op |-> op, raised |-> raised, arg |-> arg, value |-> value]

InitProcess ==
    /\ __INSTANCE__ = 0
    /\ objs = <<>>
    /\ sys_path = BasePath
    /\ dirs = {}
    /\ ret = Returned("none", None, EmptyNs, 0)
    /\ calls = 0
    /\ self_config = Idle
    /\ IdleTask /\ IdleFw /\ IdleReg /\ IdleBench /\ IdleNorm

\* lines 149-151: __INSTANCE__ = Resources(config), with all that __init__ does
from_config(cfg, fault) ==
    /\ calls < MaxCalls
    /\ \E out \in {ResourcesInit(cfg, fault)} :
        /\ calls' = calls + 1
        /\ objs' = IF out.raised = None THEN Append(objs, out.config) ELSE objs
        /\ __INSTANCE__' = AssignInstance(__INSTANCE__, out, Len(objs) + 1)
        /\ dirs' = dirs \cup {out.made[i] : i \in DOMAIN out.made}
        /\ sys_path' = sys_path \o out.path
        /\ ret' = Returned("from_config", out.raised, cfg, 0)
    /\ UNCHANGED <<self_config, taskVars, fwVars, regVars, benchVars, normVars>>

\* lines 154-156: __INSTANCE__ = Resources(Namespace.merge(*configs, deep=True))
from_configs(configs, fault) ==
    /\ calls < MaxCalls
    /\ \E merged \in {Merge(configs)} : \E out \in {ResourcesInit(merged, fault)} :
        /\ calls' = calls + 1
        /\ objs' = IF out.raised = None THEN Append(objs, out.config) ELSE objs
        /\ __INSTANCE__' = AssignInstance(__INSTANCE__, out, Len(objs) + 1)
        /\ dirs' = dirs \cup {out.made[i] : i \in DOMAIN out.made}
        /\ sys_path' = sys_path \o out.path
        /\ ret' = Returned("from_configs", out.raised, merged, 0)
    /\ UNCHANGED <<self_config, taskVars, fwVars, regVars, benchVars, normVars>>

\* lines 159-160
get ==
    /\ ret' = Returned("get", None, EmptyNs, __INSTANCE__)
    /\ UNCHANGED <<__INSTANCE__, objs, sys_path, dirs, calls,
                   self_config, taskVars, fwVars, regVars, benchVars, normVars>>

\* lines 163-164: None has no attribute config
config ==
    /\ ret' = IF __INSTANCE__ = 0
              THEN Returned("config", "AttributeError", EmptyNs, 0)
              ELSE Returned("config", None, objs[__INSTANCE__], __INSTANCE__)
    /\ UNCHANGED <<__INSTANCE__, objs, sys_path, dirs, calls,
                   self_config, taskVars, fwVars, regVars, benchVars, normVars>>

NextProcess ==
    \/ \E cfg \in RawConfigs, fault \in Faults : from_config(cfg, fault)
    \/ \E configs \in RawConfigLists, fault \in Faults : from_configs(configs, fault)
    \/ get
    \/ config

SpecProcess == InitProcess /\ [][NextProcess]_vars

\* the step is a call of from_config or from_configs, whose outcome ret' records
Initializes == calls' = calls + 1

\* C7: initializing with a configuration that has no output_dir key fails, and
\* no directory exists after the failed call that did not exist before it.
C7_MissingOutputDirFailsFirst ==
    [][(Initializes /\ OutputDir \notin DOMAIN ret'.arg)
            => (ret'.raised # None /\ dirs' = dirs)]_vars

\* the first initialization of the process was given two configurations neither
\* of which has output_dir: it raised, and the disk holds no directory
C7_Witness ==
    /\ calls = 1
    /\ ret.op = "from_configs"
    /\ OutputDir \notin DOMAIN ret.arg
    /\ InputDir \in DOMAIN ret.arg /\ UserDir \in DOMAIN ret.arg
    /\ ret.raised = "AttributeError"
    /\ dirs = {}

\* C9, as stated: the module-search path is extended one time only; once the
\* two directories are appended no later operation changes the path.
C9_AppendedOnce ==
    [][Len(sys_path) > Len(BasePath) => sys_path' = sys_path]_vars

\* C9, amended: every successful initialization appends the normalized user
\* directory and input directory of its configuration, in that order, at the end
\* of the module-search path; a failed initialization, get and config leave the
\* path as it is, so that no entry is ever removed or moved.
C9_ExtendedPerInitialization ==
    [][IF Initializes /\ ret'.raised = None
       THEN sys_path' = sys_path \o <<NormalizePath(ret'.arg[UserDir].val),
                                      NormalizePath(ret'.arg[InputDir].val)>>
       ELSE sys_path' = sys_path]_vars

\* two initializations with the same directories succeeded, and the path holds
\* the user directory and the input directory twice
C9_Witness ==
    /\ Len(objs) = 2
    /\ ret.raised = None /\ ret.op = "from_config"
    /\ Len(sys_path) = Len(BasePath) + 4
    /\ sys_path[Len(BasePath) + 1] = sys_path[Len(BasePath) + 3]
    /\ sys_path[Len(BasePath) + 2] = sys_path[Len(BasePath) + 4]
    /\ sys_path[Len(BasePath) + 3] = NormalizePath(ret.arg[UserDir].val)

\* C10: a failed from_config or from_configs leaves the singleton as it was, a
\* successful one makes it the instance just built, nothing else changes it, and
\* get returns the singleton (0 stands for the uninitialized None).
C10_ReplacedOnlyOnSuccess ==
    [][/\ Initializes =>
            IF ret'.raised = None
            THEN /\ Len(objs') = Len(objs) + 1
                 /\ __INSTANCE__' = Len(objs')
                 /\ SubSeq(objs', 1, Len(objs)) = objs
            ELSE __INSTANCE__' = __INSTANCE__ /\ objs' = objs
       /\ ~Initializes => (__INSTANCE__' = __INSTANCE__ /\ objs' = objs)
       /\ ret'.op = "get" => ret'.value = __INSTANCE__']_vars

\* an initialization succeeded, the next one failed while making its second
\* directory, and the singleton is still the instance of the successful one
C10_Witness ==
    /\ calls = 2
    /\ Len(objs) = 1
    /\ ret.op \in {"from_config", "from_configs"}
    /\ ret.raised = "OSError"
    /\ __INSTANCE__ = 1
    /\ objs[1][OutputDir] # Str(NormalizePath(ret.arg[OutputDir].val))

====
